---------------------------- MODULE Spec2Model ----------------------------
(***************************************************************************)
(* Mandelbrot renderer (src/src/main.rs): the numeric parser, the          *)
(* escape-time evaluator, the coordinate mapper, the rectangle renderer    *)
(* and the parallel driver of main.                                        *)
(*                                                                         *)
(* f64 is modelled as a binary floating-point format of MantissaBits       *)
(* significant bits whose smallest spacing is 2^-FracBits: a value is the  *)
(* integer number of units of 2^-FracBits it holds, and every arithmetic   *)
(* operation is the exact result rounded to the nearest representable      *)
(* value, ties to even, as IEEE 754 does.  Infinities and NaN are out of   *)
(* the model: the inputs are kept far from overflow.                       *)
(*                                                                         *)
(* A &str is its sequence of UTF-8 bytes; a char is the sequence of bytes  *)
(* that encodes it.                                                        *)
(***************************************************************************)
EXTENDS Integers, Sequences, FiniteSets

VARIABLES
    edges,          \* (width, height) parsed from args[2]
    super_left,     \* top left corner parsed from args[3]
    infer_right,    \* bottom right corner parsed from args[4]
    cpus,           \* num_cpus::get()
    pixels,         \* the pixel buffer, index -> byte
    chunks,         \* the Vec<&mut [u8]> collected from chunks_exact_mut
    pc,             \* position of main
    tasks,          \* the render tasks spawned in the scope, in spawn order
    writers,        \* history: buffer index -> the tasks that wrote it
    escapes,        \* history: buffer index -> escape_time result its byte came from
    lateWrite,      \* history: a task wrote after the save was invoked
    encoded,        \* the buffer save_mandelbrot_rectangle_as_png received
    call            \* a single call of one of the pure functions

vars == <<edges, super_left, infer_right, cpus, pixels, chunks, pc, tasks,
          writers, escapes, lateWrite, encoded, call>>

driverVars == <<edges, super_left, infer_right, cpus, pixels, chunks, pc, tasks,
                writers, escapes, lateWrite, encoded>>

---------------------------------------------------------------------------
(* Bounds of the model *)

MantissaBits == 6
FracBits == 6
MaxWidth == 2
MaxHeight == 4
MaxCpus == 3
MaxLimit == 3
MaxStrLen == 4

---------------------------------------------------------------------------
(* Option / Result values *)

None == [tag |-> "None"]
Some(v) == [tag |-> "Some", val |-> v]
Ok(v) == [tag |-> "Ok", val |-> v]
Err == [tag |-> "Err"]
Panic == [tag |-> "Panic"]
Pending == [tag |-> "Pending"]
Returned(v) == [tag |-> "Returned", val |-> v]

---------------------------------------------------------------------------
(* f64 arithmetic *)

Unit == 2^FracBits

Abs(n) == IF n < 0 THEN -n ELSE n

RECURSIVE Exponent(_, _)
Exponent(q, k) == IF q < 2^MantissaBits THEN k ELSE Exponent(q \div 2, k + 1)

\* the rational n/d (d > 0, in units) rounded to the nearest value of
\* MantissaBits significant bits, ties to even
Round(n, d) ==
    LET a == Abs(n)
        k == Exponent(a \div d, 0)
        dd == d * 2^k
        m == a \div dd
        r == a - m * dd
        up == (2 * r > dd) \/ (2 * r = dd /\ m % 2 = 1)
        mag == (IF up THEN m + 1 ELSE m) * 2^k
    IN  IF n < 0 THEN -mag ELSE mag

fadd(a, b) == Round(a + b, 1)
fsub(a, b) == Round(a - b, 1)
fmul(a, b) == Round(a * b, Unit)
fdiv(a, b) == IF b < 0 THEN Round(-(a * Unit), -b) ELSE Round(a * Unit, b)

\* `n as f64` for a usize n
as_f64(n) == Round(n * Unit, 1)

\* the f64 nearest to the decimal n/d, as f64::from_str gives it
f64_from_ratio(n, d) == Round(n * Unit, d)

Complex(re, im) == [re |-> re, im |-> im]

cmul(a, b) == Complex(fsub(fmul(a.re, b.re), fmul(a.im, b.im)),
                      fadd(fmul(a.re, b.im), fmul(a.im, b.re)))
cadd(a, b) == Complex(fadd(a.re, b.re), fadd(a.im, b.im))
norm_sqr(z) == fadd(fmul(z.re, z.re), fmul(z.im, z.im))

---------------------------------------------------------------------------
(* escape_time *)

\* one turn of the loop of lines 25-31, on the loop's state [z, i, ret]:
\* ret stays Pending until the turn that returns
escape_step(st, c) ==
    LET z1 == cadd(cmul(st.z, st.z), c)
    IN  IF norm_sqr(z1) > 4 * Unit
        THEN [z |-> z1, i |-> st.i, ret |-> Some(st.i)]
        ELSE [z |-> z1, i |-> st.i + 1, ret |-> Pending]

\* n turns of the loop, or fewer when one of them returns (the turns are
\* halved rather than counted down, which keeps the evaluation shallow)
RECURSIVE escape_loop(_, _, _)
escape_loop(st, c, n) ==
    IF n = 0 \/ st.ret.tag # "Pending" THEN st
    ELSE IF n = 1 THEN escape_step(st, c)
    ELSE escape_loop(escape_loop(st, c, n \div 2), c, n - n \div 2)

escape_time(c, limit) ==
    LET end == escape_loop([z |-> Complex(0, 0), i |-> 0, ret |-> Pending], c, limit)
    IN  IF end.ret.tag = "Pending" THEN None ELSE end.ret

---------------------------------------------------------------------------
(* pixel_to_complex_point *)

pixel_to_complex_point(e, pixel, sl, ir) ==
    LET width == fsub(ir.re, sl.re)
        height == fsub(sl.im, ir.im)
    IN  Complex(fadd(sl.re, fmul(fdiv(as_f64(pixel[1]), as_f64(e[1])), width)),
                fsub(sl.im, fmul(fdiv(as_f64(pixel[2]), as_f64(e[2])), height)))

---------------------------------------------------------------------------
(* &str, char and T::from_str for T = i32 *)

\* the chars of the model: two digits, the sign, the two separators main
\* uses, and U+00E9, whose UTF-8 encoding is two bytes long
Chars == {"0", "1", "-", ",", "x", "U+00E9"}

\* char::encode_utf8
Utf8(ch) == IF ch = "U+00E9" THEN <<"C3", "A9">> ELSE <<ch>>

\* the bytes that continue a multi-byte char
ContinuationBytes == {"A9"}

RECURSIVE Encode(_)
Encode(chs) == IF chs = <<>> THEN <<>> ELSE Utf8(Head(chs)) \o Encode(Tail(chs))

\* str::is_char_boundary
is_char_boundary(s, i) ==
    \/ i = 0
    \/ i = Len(s)
    \/ (i < Len(s) /\ s[i + 1] \notin ContinuationBytes)

IsAt(s, pat, i) ==
    /\ i + Len(pat) <= Len(s)
    /\ \A j \in 1..Len(pat) : s[i + j] = pat[j]

\* str::find(char): the byte index of the first occurrence
str_find(s, ch) ==
    LET pat == Utf8(ch)
        hits == {i \in 0..Len(s) : IsAt(s, pat, i)}
    IN  IF hits = {} THEN None
        ELSE Some(CHOOSE i \in hits : \A j \in hits : i <= j)

\* &s[from..to]: panics unless both ends are char boundaries
str_slice(s, from, to) ==
    IF from <= to /\ to <= Len(s) /\ is_char_boundary(s, from) /\ is_char_boundary(s, to)
    THEN Ok(SubSeq(s, from + 1, to))
    ELSE Panic

DigitValue(b) == CASE b = "0" -> 0 [] b = "1" -> 1 [] OTHER -> -1

RECURSIVE Decimal(_, _)
Decimal(digits, acc) ==
    IF digits = <<>> THEN Ok(acc)
    ELSE IF DigitValue(Head(digits)) < 0 THEN Err
    ELSE Decimal(Tail(digits), acc * 10 + DigitValue(Head(digits)))

\* <i32 as FromStr>::from_str: an optional sign, then one digit or more and
\* nothing else (the strings of the model are too short to overflow an i32)
from_str(s) ==
    IF s = <<>> THEN Err
    ELSE LET negative == Head(s) = "-"
             digits == IF Head(s) \in {"-", "+"} THEN Tail(s) ELSE s
             r == Decimal(digits, 0)
         IN  IF digits = <<>> \/ r.tag = "Err" THEN Err
             ELSE IF negative THEN Ok(-r.val) ELSE r

---------------------------------------------------------------------------
(* pair_analyze *)

pair_analyze(s, separator) ==
    LET found == str_find(s, separator)
    IN  IF found.tag = "None" THEN None
        ELSE LET index == found.val
                 left == str_slice(s, 0, index)
                 right == str_slice(s, index + 1, Len(s))
             IN  IF left.tag = "Panic" \/ right.tag = "Panic" THEN Panic
                 ELSE LET l == from_str(left.val)
                          r == from_str(right.val)
                      IN  IF l.tag = "Ok" /\ r.tag = "Ok"
                          THEN Some(<<l.val, r.val>>)
                          ELSE None

---------------------------------------------------------------------------
(* render *)

\* `count as u8`
as_u8(count) == count % 256

\* mutant of intensity: the shade is taken from 254
intensity_from_254(et) == IF et.tag = "None" THEN 0 ELSE 254 - as_u8(et.val)

\* the match of lines 132-135: the byte render stores for an escape_time result
intensity(et) == IF et.tag = "None" THEN 0 ELSE 255 - as_u8(et.val)

\* the escape_time result render computes for pixel (column, row)
render_escape(e, column, row, sl, ir) ==
    escape_time(pixel_to_complex_point(e, <<column, row>>, sl, ir), 255)

\* the buffer one complete call of render leaves, index -> byte
render(e, sl, ir) ==
    [idx \in 0..(e[1] * e[2] - 1) |->
        intensity(render_escape(e, idx % e[1], idx \div e[1], sl, ir))]

---------------------------------------------------------------------------
(* main: the partition *)

\* mutant of rows_per_chunk: the + 1 is left out
rows_per_chunk_floor == edges[2] \div cpus

\* mutant of rows_per_chunk: one row too many
rows_per_chunk_plus_two == edges[2] \div cpus + 2

rows_per_chunk == edges[2] \div cpus + 1

\* mutant of chunks_exact_mut: each chunk starts one byte early
chunks_overlapping(len, chunk_size) ==
    [i \in 1..(len \div chunk_size) |->
        [start |-> (i - 1) * (chunk_size - 1), len |-> chunk_size]]

\* [T]::chunks_exact_mut(chunk_size).collect(): the whole chunks, in order
chunks_exact_mut(len, chunk_size) ==
    [i \in 1..(len \div chunk_size) |->
        [start |-> (i - 1) * chunk_size, len |-> chunk_size]]

\* mutant of spawned_task: the chunk height is taken by dividing by the
\* image height instead of its width
spawned_task_by_height(i, chunk) ==
    LET top == (edges[2] \div cpus + 1) * i
        height == chunk.len \div edges[2]
    IN  [chunk |-> chunk,
         chunk_shape |-> <<edges[1], height>>,
         chunk_supl |-> pixel_to_complex_point(edges, <<0, top>>, super_left, infer_right),
         chunk_infr |-> pixel_to_complex_point(edges, <<edges[1], top + height>>,
                                                super_left, infer_right),
         row |-> 0,
         column |-> 0,
         state |-> "start"]

\* the task the loop body of lines 188-206 spawns for chunk number i (from 0)
spawned_task(i, chunk) ==
    LET top == rows_per_chunk * i
        height == chunk.len \div edges[1]
    IN  [chunk |-> chunk,
         chunk_shape |-> <<edges[1], height>>,
         chunk_supl |-> pixel_to_complex_point(edges, <<0, top>>, super_left, infer_right),
         chunk_infr |-> pixel_to_complex_point(edges, <<edges[1], top + height>>,
                                                super_left, infer_right),
         row |-> 0,
         column |-> 0,
         state |-> "start"]

\* mutant of all_joined: the scope returns without waiting for its tasks
scope_without_join == TRUE

\* the scope returns once every task it spawned has ended
all_joined == \A t \in 1..Len(tasks) : tasks[t].state \in {"done", "panicked"}

---------------------------------------------------------------------------
(* main: the inputs the command line can give *)

\* (top left, bottom right) pairs, each coordinate parsed from a decimal
Rectangles ==
    { <<Complex(f64_from_ratio(-2, 1), f64_from_ratio(1, 1)),
        Complex(f64_from_ratio(1, 1), f64_from_ratio(-1, 1))>>,
      <<Complex(f64_from_ratio(-3, 4), f64_from_ratio(1, 4)),
        Complex(f64_from_ratio(-1, 4), f64_from_ratio(-1, 4))>>,
      <<Complex(f64_from_ratio(-5, 4), f64_from_ratio(3, 5)),
        Complex(f64_from_ratio(-1, 1), f64_from_ratio(1, 5))>> }

Extents == (1..MaxWidth) \X (1..MaxHeight)

NoCall == [fn |-> "none"]

\* main after the arguments have been parsed (lines 169-175)
Init ==
    /\ edges \in Extents
    /\ \E rect \in Rectangles : super_left = rect[1] /\ infer_right = rect[2]
    /\ cpus \in 1..MaxCpus
    /\ pixels = <<>>
    /\ chunks = <<>>
    /\ pc = "alloc"
    /\ tasks = <<>>
    /\ writers = <<>>
    /\ escapes = <<>>
    /\ lateWrite = FALSE
    /\ encoded = None
    /\ call = NoCall

---------------------------------------------------------------------------
(* main: the steps *)

\* lines 177-184: the buffer is allocated zeroed and split into whole chunks
Partition ==
    /\ pc = "alloc"
    /\ LET len == edges[1] * edges[2]
           chunk_size == rows_per_chunk * edges[1]
       IN  /\ pixels' = [idx \in 0..(len - 1) |-> 0]
           /\ writers' = [idx \in 0..(len - 1) |-> {}]
           /\ escapes' = [idx \in 0..(len - 1) |-> Pending]
           /\ IF chunk_size = 0
              THEN chunks' = <<>> /\ pc' = "panicked"
              ELSE chunks' = chunks_exact_mut(len, chunk_size) /\ pc' = "spawn"
    /\ UNCHANGED <<edges, super_left, infer_right, cpus, tasks, lateWrite, encoded, call>>

\* lines 187-206: one turn of the loop spawns the task of the next chunk
Spawn ==
    /\ pc = "spawn"
    /\ Len(tasks) < Len(chunks)
    /\ tasks' = Append(tasks, spawned_task(Len(tasks), chunks[Len(tasks) + 1]))
    /\ UNCHANGED <<edges, super_left, infer_right, cpus, pixels, chunks, pc,
                   writers, escapes, lateWrite, encoded, call>>

\* line 121: the assertion at the top of render
TaskAssert(t) ==
    /\ tasks[t].state = "start"
    /\ LET e == tasks[t].chunk_shape
       IN  tasks' = [tasks EXCEPT ![t].state =
                        IF tasks[t].chunk.len # e[1] * e[2] THEN "panicked"
                        ELSE IF e[1] = 0 \/ e[2] = 0 THEN "done"
                        ELSE "loop"]
    /\ UNCHANGED <<edges, super_left, infer_right, cpus, pixels, chunks, pc,
                   writers, escapes, lateWrite, encoded, call>>

\* lines 123-136: one turn of the inner loop of render writes one pixel
TaskWrite(t) ==
    /\ tasks[t].state = "loop"
    /\ LET task == tasks[t]
           e == task.chunk_shape
           idx == task.row * e[1] + task.column
           at == task.chunk.start + idx
           et == render_escape(e, task.column, task.row, task.chunk_supl, task.chunk_infr)
       IN  IF idx >= task.chunk.len
           THEN /\ tasks' = [tasks EXCEPT ![t].state = "panicked"]
                /\ UNCHANGED <<pixels, writers, escapes, lateWrite>>
           ELSE /\ pixels' = [pixels EXCEPT ![at] = intensity(et)]
                /\ writers' = [writers EXCEPT ![at] = @ \cup {t}]
                /\ escapes' = [escapes EXCEPT ![at] = et]
                /\ lateWrite' = (lateWrite \/ encoded.tag = "Some")
                /\ tasks' = [tasks EXCEPT ![t] =
                       IF task.column + 1 < e[1]
                       THEN [task EXCEPT !.column = task.column + 1]
                       ELSE IF task.row + 1 < e[2]
                       THEN [task EXCEPT !.row = task.row + 1, !.column = 0]
                       ELSE [task EXCEPT !.state = "done"]]
    /\ UNCHANGED <<edges, super_left, infer_right, cpus, chunks, pc, encoded, call>>

\* lines 186-208: crossbeam::scope returns when the loop is over and every
\* task has ended; a task that panicked makes the scope panic
Join ==
    /\ pc = "spawn"
    /\ Len(tasks) = Len(chunks)
    /\ all_joined
    /\ pc' = IF \E t \in 1..Len(tasks) : tasks[t].state = "panicked"
             THEN "panicked" ELSE "save"
    /\ UNCHANGED <<edges, super_left, infer_right, cpus, pixels, chunks, tasks,
                   writers, escapes, lateWrite, encoded, call>>

\* lines 211-212: the buffer goes to the encoder; an I/O error panics
Save ==
    /\ pc = "save"
    /\ encoded' = Some(pixels)
    /\ \E io_ok \in BOOLEAN : pc' = IF io_ok THEN "done" ELSE "panicked"
    /\ UNCHANGED <<edges, super_left, infer_right, cpus, pixels, chunks, tasks,
                   writers, escapes, lateWrite, call>>

Next ==
    \/ Partition
    \/ Spawn
    \/ \E t \in 1..Len(tasks) : TaskAssert(t)
    \/ \E t \in 1..Len(tasks) : TaskWrite(t)
    \/ Join
    \/ Save

Spec == Init /\ [][Next]_vars

---------------------------------------------------------------------------
(* The pure functions, each called once on an input drawn from a bounded set *)

\* coordinates on a grid of halves around the circle of radius 2
Grid == {f64_from_ratio(n, 2) : n \in -5..5}

Limits == (0..MaxLimit) \cup {255}

\* a rectangle whose corners are far apart in magnitude
WideRectangle ==
    <<Complex(f64_from_ratio(-1, 1), f64_from_ratio(2, 1)),
      Complex(f64_from_ratio(1, 1), f64_from_ratio(1, Unit))>>

Strs == UNION {[1..k -> Chars] : k \in 0..MaxStrLen}

Separators == {",", "x", "U+00E9"}

EscapeCalls ==
    {[fn |-> "escape_time", c |-> Complex(re, im), limit |-> l, ret |-> Pending] :
        re \in Grid, im \in Grid, l \in Limits}

MapCalls ==
    {[fn |-> "pixel_to_complex_point", edges |-> e, pixel |-> p,
      super_left |-> rect[1], infer_right |-> rect[2], ret |-> Pending] :
        e \in Extents, p \in (0..MaxWidth) \X (0..MaxHeight),
        rect \in Rectangles \cup {WideRectangle}}

ParseCalls ==
    {[fn |-> "pair_analyze", chars |-> s, separator |-> ch, ret |-> Pending] :
        s \in Strs, ch \in Separators}

FnInit ==
    /\ edges = <<1, 1>>
    /\ super_left = Complex(0, 0)
    /\ infer_right = Complex(0, 0)
    /\ cpus = 1
    /\ pixels = <<>>
    /\ chunks = <<>>
    /\ pc = "idle"
    /\ tasks = <<>>
    /\ writers = <<>>
    /\ escapes = <<>>
    /\ lateWrite = FALSE
    /\ encoded = None
    /\ \/ call \in EscapeCalls
       \/ call \in {m \in MapCalls : m.pixel[1] <= m.edges[1] /\ m.pixel[2] <= m.edges[2]}
       \/ call \in ParseCalls

CallEscapeTime ==
    /\ call.fn = "escape_time"
    /\ call.ret.tag = "Pending"
    /\ call' = [call EXCEPT !.ret = Returned(escape_time(call.c, call.limit))]
    /\ UNCHANGED driverVars

CallPixelToComplexPoint ==
    /\ call.fn = "pixel_to_complex_point"
    /\ call.ret.tag = "Pending"
    /\ call' = [call EXCEPT !.ret = Returned(pixel_to_complex_point(call.edges,
                                        call.pixel, call.super_left, call.infer_right))]
    /\ UNCHANGED driverVars

CallPairAnalyze ==
    /\ call.fn = "pair_analyze"
    /\ call.ret.tag = "Pending"
    /\ call' = [call EXCEPT !.ret =
                    LET r == pair_analyze(Encode(call.chars), call.separator)
                    IN  IF r.tag = "Panic" THEN Panic ELSE Returned(r)]
    /\ UNCHANGED driverVars

FnNext == CallEscapeTime \/ CallPixelToComplexPoint \/ CallPairAnalyze

FnSpec == FnInit /\ [][FnNext]_vars

---------------------------------------------------------------------------
(* Helpers of the properties *)

\* the buffer indices of a chunk
Range(chunk) == chunk.start .. (chunk.start + chunk.len - 1)

\* the buffer indices of row r of the full image
RowIndices(r) == (r * edges[1]) .. (r * edges[1] + edges[1] - 1)

\* the buffer indices some chunk covers
Covered == UNION {Range(chunks[i]) : i \in 1..Len(chunks)}

SaveInvoked == encoded.tag = "Some"

---------------------------------------------------------------------------
(* C1: the chunks handed to the render tasks are pairwise disjoint ranges  *)
(* of the buffer, task number t owns chunk number t and no other task      *)
(* does, and under every interleaving each buffer byte has been written by *)
(* at most one task, the owner of the chunk it lies in.                    *)
C1_DisjointOwnership ==
    /\ \A i \in 1..Len(chunks) : Range(chunks[i]) \subseteq DOMAIN pixels
    /\ \A i, j \in 1..Len(chunks) :
          i # j => Range(chunks[i]) \cap Range(chunks[j]) = {}
    /\ Len(tasks) <= Len(chunks)
    /\ \A t \in 1..Len(tasks) : tasks[t].chunk = chunks[t]
    /\ \A t, u \in 1..Len(tasks) :
          t # u => Range(tasks[t].chunk) \cap Range(tasks[u].chunk) = {}
    /\ pc \in {"save", "done"} => Len(tasks) = Len(chunks)
    /\ \A idx \in DOMAIN writers :
          /\ Cardinality(writers[idx]) <= 1
          /\ \A t \in writers[idx] : idx \in Range(tasks[t].chunk)

\* two tasks are both inside their loops, each with a byte already written
C1_Witness ==
    \E t, u \in 1..Len(tasks) :
        /\ t # u
        /\ tasks[t].state = "loop" /\ tasks[u].state = "loop"
        /\ \E idx \in DOMAIN writers : writers[idx] = {t}
        /\ \E idx \in DOMAIN writers : writers[idx] = {u}

---------------------------------------------------------------------------
(* C2: the save starts only after every spawned render task has finished:  *)
(* once main is past the scope every task is done, no task writes a byte    *)
(* after the save was invoked, and the buffer the encoder received holds,   *)
(* for every byte of every chunk, the byte its task computed.               *)
C2_SaveAfterJoin ==
    /\ (pc \in {"save", "done"} \/ SaveInvoked) =>
          /\ Len(tasks) = Len(chunks)
          /\ \A t \in 1..Len(tasks) : tasks[t].state = "done"
    /\ ~lateWrite
    /\ SaveInvoked =>
          /\ DOMAIN encoded.val = DOMAIN pixels
          /\ \A idx \in Covered :
                /\ escapes[idx].tag # "Pending"
                /\ encoded.val[idx] = intensity(escapes[idx])

\* the save has been invoked on the output of two tasks or more
C2_Witness ==
    /\ SaveInvoked
    /\ Len(tasks) >= 2
    /\ \E idx \in DOMAIN encoded.val : encoded.val[idx] # 0

---------------------------------------------------------------------------
(* C3: partition equivalence: when the driver is done, every byte of every *)
(* row that some chunk covers equals the byte one call of render on the    *)
(* full image gives it.                                                    *)
C3_PartitionEquivalence ==
    pc = "done" =>
        LET full == render(edges, super_left, infer_right)
        IN  \A idx \in Covered : pixels[idx] = full[idx]

---------------------------------------------------------------------------
(* C4: for every limit >= 1 and every c of magnitude >= 2, escape_time     *)
(* returns Some(i) with i <= limit - 1, i the first iteration after whose  *)
(* update the squared magnitude of z exceeds 4.0; for c = (0,0) it returns *)
(* None for every limit.                                                   *)

\* z after the update of iteration n (from 0), starting from z = 0
RECURSIVE C4_Orbit(_, _)
C4_Orbit(c, n) ==
    IF n = 0 THEN cadd(cmul(Complex(0, 0), Complex(0, 0)), c)
    ELSE LET z == C4_Orbit(c, n - 1) IN cadd(cmul(z, z), c)

C4_EscapeOutsideRadiusTwo ==
    (call.fn = "escape_time" /\ call.ret.tag # "Pending") =>
        /\ (/\ call.limit >= 1
            /\ call.c.re * call.c.re + call.c.im * call.c.im >= 4 * Unit * Unit) =>
              /\ call.ret.val.tag = "Some"
              /\ call.ret.val.val <= call.limit - 1
              /\ norm_sqr(C4_Orbit(call.c, call.ret.val.val)) > 4 * Unit
              /\ \A j \in 0..(call.ret.val.val - 1) :
                    norm_sqr(C4_Orbit(call.c, j)) <= 4 * Unit
        /\ (call.c = Complex(0, 0)) => call.ret = Returned(None)

---------------------------------------------------------------------------
(* C5: when the driver is done, the rows no task rendered are the last k   *)
(* rows of the image for some k <= rows_per_chunk - 1, with                *)
(* rows_per_chunk = floor(height / workers) + 1; every byte of those rows  *)
(* is still 0 and every byte of every row above them has been written.     *)
C5_TrailingRemainder ==
    pc = "done" =>
        LET rpc == edges[2] \div cpus + 1
        IN  \E k \in 0..(rpc - 1) :
                /\ k <= edges[2]
                /\ \A r \in 0..(edges[2] - 1) :
                      IF r < edges[2] - k
                      THEN \A idx \in RowIndices(r) : writers[idx] # {}
                      ELSE \A idx \in RowIndices(r) :
                              writers[idx] = {} /\ pixels[idx] = 0

\* the driver is done with rows rendered above a remainder left at zero
C5_Witness ==
    /\ pc = "done"
    /\ \E idx \in DOMAIN writers : writers[idx] # {}
    /\ \E idx \in DOMAIN writers : writers[idx] = {}

---------------------------------------------------------------------------
(* C6: every byte render has written is 0 when escape_time returned None   *)
(* and 255 - index when it returned Some(index); the index lies in 0..254, *)
(* so its conversion to a byte keeps its value and the subtraction stays   *)
(* at 1 or above: an escaped point gets a byte in 1..255, index 0 gets 255.*)
C6_IntensityByte ==
    \A idx \in DOMAIN escapes :
        LET et == escapes[idx]
        IN  /\ et.tag = "None" => pixels[idx] = 0
            /\ et.tag = "Some" =>
                  /\ et.val \in 0..254
                  /\ et.val % 256 = et.val
                  /\ pixels[idx] = 255 - et.val
                  /\ pixels[idx] \in 1..255
                  /\ et.val = 0 => pixels[idx] = 255

\* one image holds a point that never escaped, one that escaped at once and
\* one that escaped later
C6_Witness ==
    /\ \E idx \in DOMAIN escapes : escapes[idx].tag = "None"
    /\ \E idx \in DOMAIN escapes : escapes[idx] = Some(0)
    /\ \E idx \in DOMAIN escapes : escapes[idx].tag = "Some" /\ escapes[idx].val > 0

---------------------------------------------------------------------------
(* C7: pair_analyze(s, sep) splits s at the first occurrence of sep and    *)
(* returns Some((l, r)) exactly when the whole text before it and the      *)
(* whole text after it each parse as a number; it returns None when sep is *)
(* absent, when either text is empty, and when either text holds a char    *)
(* that is no part of one number (garbage, or a further sep).              *)

\* positions of sep in the chars of s
C7_Positions(chs, sep) == {i \in 1..Len(chs) : chs[i] = sep}

C7_First(chs, sep) == CHOOSE i \in C7_Positions(chs, sep) : \A j \in C7_Positions(chs, sep) : i <= j

C7_SplitAtFirstSeparator ==
    (call.fn = "pair_analyze" /\ call.ret.tag # "Pending") =>
        LET chs == call.chars
            sep == call.separator
        IN  IF C7_Positions(chs, sep) = {}
            THEN call.ret = Returned(None)
            ELSE LET p == C7_First(chs, sep)
                     before == SubSeq(chs, 1, p - 1)
                     after == SubSeq(chs, p + 1, Len(chs))
                     l == from_str(Encode(before))
                     r == from_str(Encode(after))
                 IN  /\ (l.tag = "Ok" /\ r.tag = "Ok") => call.ret = Returned(Some(<<l.val, r.val>>))
                     /\ ~(l.tag = "Ok" /\ r.tag = "Ok") => call.ret = Returned(None)
                     /\ (before = <<>> \/ after = <<>>) => call.ret = Returned(None)
                     /\ (\E i \in 1..Len(after) : after[i] \notin {"0", "1", "-"}) =>
                            call.ret = Returned(None)
                     /\ (\E i \in 1..Len(before) : before[i] \notin {"0", "1", "-"}) =>
                            call.ret = Returned(None)

\* The part of C7 that holds: the same statement for the separators whose
\* UTF-8 encoding is one byte long, the only ones main passes.
C7_SingleByteSeparator ==
    (call.fn = "pair_analyze" /\ Len(Utf8(call.separator)) = 1) =>
        C7_SplitAtFirstSeparator

---------------------------------------------------------------------------
(* C8: pixel_to_complex_point returns                                      *)
(*   real = top-left.real + (column / width) * (bottom-right.real -        *)
(*          top-left.real),                                                *)
(*   imaginary = top-left.imaginary - (row / height) *                     *)
(*          (top-left.imaginary - bottom-right.imaginary),                 *)
(* so pixel (0,0) maps exactly to the top-left corner and pixel            *)
(* (width, height) maps exactly to the bottom-right corner.                *)
C8_CornersExact ==
    (call.fn = "pixel_to_complex_point" /\ call.ret.tag # "Pending") =>
        LET sl == call.super_left
            ir == call.infer_right
            column == as_f64(call.pixel[1])
            row == as_f64(call.pixel[2])
            width == as_f64(call.edges[1])
            height == as_f64(call.edges[2])
        IN  /\ call.ret.val.re = fadd(sl.re, fmul(fdiv(column, width), fsub(ir.re, sl.re)))
            /\ call.ret.val.im = fsub(sl.im, fmul(fdiv(row, height), fsub(sl.im, ir.im)))
            /\ call.pixel = <<0, 0>> => call.ret.val = sl
            /\ call.pixel = call.edges => call.ret.val = ir

\* The part of C8 that holds: the formula, and pixel (0,0) on the top-left
\* corner.
C8_TopLeftExact ==
    (call.fn = "pixel_to_complex_point" /\ call.ret.tag # "Pending") =>
        LET sl == call.super_left
            ir == call.infer_right
            column == as_f64(call.pixel[1])
            row == as_f64(call.pixel[2])
            width == as_f64(call.edges[1])
            height == as_f64(call.edges[2])
        IN  /\ call.ret.val.re = fadd(sl.re, fmul(fdiv(column, width), fsub(ir.re, sl.re)))
            /\ call.ret.val.im = fsub(sl.im, fmul(fdiv(row, height), fsub(sl.im, ir.im)))
            /\ call.pixel = <<0, 0>> => call.ret.val = sl

---------------------------------------------------------------------------
(* C9: no render task fails: every chunk passed to render has the length   *)
(* width * chunk height with chunk height = floor(height / workers) + 1,   *)
(* so the assertion at the top of render holds in every task, every index  *)
(* render writes lies inside its chunk, and main panics only in the save.  *)
C9_NoInternalFailure ==
    /\ \A t \in 1..Len(tasks) :
          LET task == tasks[t]
          IN  /\ task.state # "panicked"
              /\ task.chunk_shape = <<edges[1], edges[2] \div cpus + 1>>
              /\ task.chunk.len = task.chunk_shape[1] * task.chunk_shape[2]
              /\ task.state = "loop" =>
                    task.row * task.chunk_shape[1] + task.column < task.chunk.len
    /\ pc = "panicked" => SaveInvoked

\* a task is past the assertion and inside its loop, beyond its first row
C9_Witness ==
    \E t \in 1..Len(tasks) : tasks[t].state = "loop" /\ tasks[t].row >= 1

---------------------------------------------------------------------------
(* C10: the driver spawns floor(height / (floor(height / workers) + 1))    *)
(* render tasks, never more than workers - 1; with a single worker no task *)
(* is spawned and the buffer handed to the encoder is entirely zero.       *)
C10_TaskCount ==
    /\ Len(tasks) <= cpus - 1
    /\ (pc \in {"save", "done"} \/ SaveInvoked) =>
          Len(tasks) = edges[2] \div (edges[2] \div cpus + 1)
    /\ cpus = 1 =>
          /\ Len(tasks) = 0
          /\ SaveInvoked => \A idx \in DOMAIN encoded.val : encoded.val[idx] = 0

\* the driver is done having spawned workers - 1 tasks, two or more
C10_Witness ==
    /\ pc = "done"
    /\ Len(tasks) = cpus - 1
    /\ Len(tasks) >= 2

===========================================================================
